---- MODULE Spec2Model ----
(***************************************************************************)
(* Model of combine_etf_weights.py: the per-file reader (read_one and its  *)
(* recovery read), the field normalisers (_normalize_code, _to_fraction),  *)
(* the loader (load_all), the scheme resolver (normalize_weights), the     *)
(* aggregator (combine_weighted) and the driver (main).                    *)
(*                                                                         *)
(* Strings are tuples of one-character strings.  Numbers are exact         *)
(* rationals <<n, d>> in lowest terms with d > 0; <<0, 0>> is NaN.  IEEE   *)
(* rounding of float64 is not modelled: every arithmetic step is exact.    *)
(***************************************************************************)
EXTENDS Integers, Sequences, FiniteSets, TLC

(***************************************************************************)
(* Bounds of the model.                                                    *)
(***************************************************************************)
\* rows of the sheet the cleaning steps of read_one are run on
MaxRows == 2
\* files in the data folder
MaxFiles == 2

(***************************************************************************)
(* Configuration constants of the program (lines 16-17, 149-155).  The two *)
(* header names stand for the configured ones; only their being distinct   *)
(* from each other and from every other label matters.                     *)
(***************************************************************************)
CODE_COL == "code_col"
WEIGHT_COL == "weight_col"
TOTAL_COL == "total_weight"
APPEAR_COL == "appear_in"
PCT_COL == "total_weight_pct"

(***************************************************************************)
(* Exact rational arithmetic standing for float64.                         *)
(***************************************************************************)
NaN == <<0, 0>>
IsNaN(v) == v[2] = 0
Abs(n) == IF n < 0 THEN -n ELSE n

RECURSIVE GCD(_, _)
GCD(a, b) == IF b = 0 THEN a ELSE GCD(b, a % b)

Rat(n, d) == LET g == GCD(Abs(n), d) IN <<n \div g, d \div g>>
Zero == Rat(0, 1)
One == Rat(1, 1)
RAdd(a, b) == Rat(a[1] * b[2] + b[1] * a[2], a[2] * b[2])
RMul(a, b) == Rat(a[1] * b[1], a[2] * b[2])
\* a / b for b # 0
RDiv(a, b) == IF b[1] < 0 THEN Rat(-(a[1] * b[2]), a[2] * (-b[1]))
              ELSE Rat(a[1] * b[2], a[2] * b[1])
RLess(a, b) == a[1] * b[2] < b[1] * a[2]
RLeq(a, b) == a[1] * b[2] <= b[1] * a[2]

RECURSIVE RSum(_)
RSum(s) == IF s = <<>> THEN Zero ELSE RAdd(RSum(Tail(s)), Head(s))

(***************************************************************************)
(* Strings.                                                                *)
(***************************************************************************)
\* the characters of the model in code-point order
CodePoints == <<" ", "%", "-", ".", "0", "1", "2", "3", "4", "5", "6", "7",
                "8", "9", "X", "Y", "a", "n", "x">>
Whitespace == {" "}
DigitChars == {"0", "1", "2", "3", "4", "5", "6", "7", "8", "9"}
CharRank(c) == CHOOSE i \in 1..Len(CodePoints) : CodePoints[i] = c
DigitVal(c) == CharRank(c) - CharRank("0")

RECURSIVE StrLess(_, _)
\* Python's str < str: lexicographic by code point
StrLess(a, b) ==
    IF b = <<>> THEN FALSE
    ELSE IF a = <<>> THEN TRUE
    ELSE IF Head(a) = Head(b) THEN StrLess(Tail(a), Tail(b))
    ELSE CharRank(Head(a)) < CharRank(Head(b))

RECURSIVE LStrip(_)
LStrip(s) == IF s # <<>> /\ Head(s) \in Whitespace THEN LStrip(Tail(s)) ELSE s
RECURSIVE RStrip(_)
RStrip(s) == IF s # <<>> /\ s[Len(s)] \in Whitespace
             THEN RStrip(SubSeq(s, 1, Len(s) - 1)) ELSE s
\* str.strip()
Strip(s) == RStrip(LStrip(s))

\* str.replace(c, "", regex=False) for a one-character pattern
RemoveAll(s, c) == SelectSeq(s, LAMBDA x : x # c)

\* str.replace(r"\.0$", "", regex=True): the one match, at the very end
StripDotZero(s) ==
    IF Len(s) >= 2 /\ s[Len(s) - 1] = "." /\ s[Len(s)] = "0"
    THEN SubSeq(s, 1, Len(s) - 2) ELSE s

\* astype(str) of a cell: an empty cell is NaN and prints as "nan"
AsStr(cell) == IF cell.na THEN <<"n", "a", "n">> ELSE cell.s

(***************************************************************************)
(* pd.to_numeric(errors="coerce") on one string: [sign] digits [. digits], *)
(* anything else (also "" and "nan") is NaN.                               *)
(***************************************************************************)
IsDigits(s) == \A i \in 1..Len(s) : s[i] \in DigitChars
RECURSIVE IntOf(_)
IntOf(s) == IF s = <<>> THEN 0
            ELSE IntOf(SubSeq(s, 1, Len(s) - 1)) * 10 + DigitVal(s[Len(s)])
RECURSIVE Pow10(_)
Pow10(k) == IF k = 0 THEN 1 ELSE 10 * Pow10(k - 1)

ParseUnsigned(s) ==
    LET dots == {i \in 1..Len(s) : s[i] = "."} IN
    IF dots = {} THEN (IF s # <<>> /\ IsDigits(s) THEN Rat(IntOf(s), 1) ELSE NaN)
    ELSE IF Cardinality(dots) > 1 THEN NaN
    ELSE LET p == CHOOSE i \in dots : TRUE
             ip == SubSeq(s, 1, p - 1)
             fp == SubSeq(s, p + 1, Len(s))
         IN IF IsDigits(ip) /\ IsDigits(fp) /\ Len(ip) + Len(fp) > 0
            THEN Rat(IntOf(ip) * Pow10(Len(fp)) + IntOf(fp), Pow10(Len(fp)))
            ELSE NaN

to_numeric(s) ==
    IF s # <<>> /\ Head(s) = "-"
    THEN LET v == ParseUnsigned(Tail(s)) IN IF IsNaN(v) THEN NaN ELSE Rat(-v[1], v[2])
    ELSE ParseUnsigned(s)

(***************************************************************************)
(* Field normalisers, applied to a column (a sequence of cells).           *)
(***************************************************************************)
\* lines 46-52, on one cell
NormalizeCodeCell(cell) == StripDotZero(Strip(AsStr(cell)))
\* lines 46-52
_normalize_code(col) == [i \in 1..Len(col) |-> NormalizeCodeCell(col[i])]

\* line 56-57, on one cell
ParseWeightCell(cell) == to_numeric(RemoveAll(Strip(AsStr(cell)), "%"))
\* line 58: s1.max(skipna=True); NaN for a column with no number
ColMax(s1) ==
    LET nums == {i \in 1..Len(s1) : ~IsNaN(s1[i])} IN
    IF nums = {} THEN NaN
    ELSE s1[CHOOSE i \in nums : \A j \in nums : RLeq(s1[j], s1[i])]
\* line 59: the column-wide decision
ScaleDown(maxv) == ~IsNaN(maxv) /\ RLess(One, maxv)
\* line 61
FillNa(v) == IF IsNaN(v) THEN Zero ELSE v
\* lines 54-61
_to_fraction(col) ==
    LET s1 == [i \in 1..Len(col) |-> ParseWeightCell(col[i])]
        s2 == IF ScaleDown(ColMax(s1))
              THEN [i \in 1..Len(s1) |->
                      IF IsNaN(s1[i]) THEN NaN ELSE RDiv(s1[i], Rat(100, 1))]
              ELSE s1
    IN [i \in 1..Len(s2) |-> FillNa(s2[i])]

(***************************************************************************)
(* read_one, lines 86-93: the cleaning of one sheet.  A sheet is a sequence *)
(* of rows [code |-> cell, weight |-> cell]; a cell is [na, s].  A table is *)
(* a sequence of [code |-> string, weight |-> number].                      *)
(***************************************************************************)
Str(s) == [na |-> FALSE, s |-> s]
Empty == [na |-> TRUE, s |-> <<>>]

CodeColumn(rows) == [i \in 1..Len(rows) |-> rows[i].code]
WeightColumn(rows) == [i \in 1..Len(rows) |-> rows[i].weight]

\* line 91: the row filter
KeepRow(code, weight) == code # <<>> /\ RLess(Zero, weight)

RECURSIVE SortCodes(_)
\* the group keys in ascending order (groupby sorts its keys)
SortCodes(S) ==
    IF S = {} THEN <<>>
    ELSE LET m == CHOOSE x \in S : \A y \in S \ {x} : StrLess(x, y)
         IN <<m>> \o SortCodes(S \ {m})

\* the indices of a column, ascending, as a sequence
RECURSIVE IndexSeq(_, _)
IndexSeq(S, n) ==
    IF n = 0 THEN <<>>
    ELSE IndexSeq(S, n - 1) \o (IF n \in S THEN <<n>> ELSE <<>>)

\* line 92: groupby(code).sum() over the rows in kept
GroupSum(codes, weights, kept) ==
    LET keys == SortCodes({codes[i] : i \in kept})
        rowsOf(k) == IndexSeq({i \in kept : codes[i] = k}, Len(codes))
    IN [j \in 1..Len(keys) |->
          [code |-> keys[j],
           weight |-> RSum([m \in 1..Len(rowsOf(keys[j])) |->
                              weights[rowsOf(keys[j])[m]]])]]

\* lines 86-93
CleanSheet(rows) ==
    LET codes == _normalize_code(CodeColumn(rows))
        weights == _to_fraction(WeightColumn(rows))
        kept == {i \in 1..Len(rows) : KeepRow(codes[i], weights[i])}
    IN GroupSum(codes, weights, kept)

(***************************************************************************)
(* normalize_weights, lines 111-119.  A setting is [equal, map]: the       *)
(* string "equal", or a dict of fund name -> raw weight.  The result is    *)
(* [raised, w]: the ValueError of line 118, or the returned dict.          *)
(***************************************************************************)
Equal == [equal |-> TRUE, map |-> <<>>]
Explicit(m) == [equal |-> FALSE, map |-> m]
\* dict.get(k, default)
Get(d, k, default) == IF k \in DOMAIN d THEN d[k] ELSE default
Range(s) == {s[i] : i \in DOMAIN s}

RECURSIVE SumOver(_, _)
\* sum(w.values())
SumOver(w, keys) ==
    IF keys = {} THEN Zero
    ELSE LET k == CHOOSE x \in keys : TRUE
         IN RAdd(w[k], SumOver(w, keys \ {k}))

\* line 113: len(etf_names) or 1
CountOrOne(etf_names) == IF Len(etf_names) = 0 THEN 1 ELSE Len(etf_names)
\* line 117: the rejection test
BadTotal(s) == RLeq(s, Zero)

\* normalize_weights with the total taken over every configured fund,
\* loaded or not
normalize_weights_configured(etf_names, setting) ==
    IF setting.equal
    THEN [raised |-> FALSE,
          w |-> [name \in Range(etf_names) |-> Rat(1, CountOrOne(etf_names))]]
    ELSE LET w == [name \in Range(etf_names) |-> Rat(Get(setting.map, name, 0), 1)]
             all == [name \in DOMAIN setting.map |-> Rat(setting.map[name], 1)]
             s == SumOver(all, DOMAIN all)
         IN IF BadTotal(s)
            THEN [raised |-> TRUE, w |-> <<>>]
            ELSE [raised |-> FALSE, w |-> [k \in DOMAIN w |-> RDiv(w[k], s)]]

\* lines 111-119
normalize_weights(etf_names, setting) ==
    IF setting.equal
    THEN [raised |-> FALSE,
          w |-> [name \in Range(etf_names) |-> Rat(1, CountOrOne(etf_names))]]
    ELSE LET w == [name \in Range(etf_names) |-> Rat(Get(setting.map, name, 0), 1)]
             s == SumOver(w, DOMAIN w)
         IN IF BadTotal(s)
            THEN [raised |-> TRUE, w |-> <<>>]
            ELSE [raised |-> FALSE, w |-> [k \in DOMAIN w |-> RDiv(w[k], s)]]

(***************************************************************************)
(* read_one, lines 64-84: opening the file.  The file system decides how   *)
(* the read goes (how) and what the file holds (content).                  *)
(***************************************************************************)
\* how a read can go: the direct read works, or it raises and the recovery
\* read (lines 29-44) runs: the file is no archive (line 31 raises before
\* the temporary file exists), a part fails to copy (line 36 raises), the
\* re-read of the rebuilt file raises (line 39), or the re-read works
ReadOutcomes == {"direct", "no_archive", "copy_fails", "reread_fails", "recovered"}

\* lines 29-44: [raised, created, removed], the temporary files made and
\* deleted by the call; os.remove of the own temporary file succeeds
_read_xlsx_without_styles(how) ==
    CASE how = "no_archive" -> [raised |-> TRUE, created |-> 0, removed |-> 0]
      [] how = "copy_fails" -> [raised |-> TRUE, created |-> 1, removed |-> 0]
      [] how = "reread_fails" -> [raised |-> TRUE, created |-> 1, removed |-> 1]
      [] OTHER -> [raised |-> FALSE, created |-> 1, removed |-> 1]

None == [none |-> TRUE, rows |-> <<>>]
Some(t) == [none |-> FALSE, rows |-> t]

\* lines 76-77: df[CODE_COL] = df[CODE_COL].astype(str)
CodesAsStr(rows) ==
    [i \in 1..Len(rows) |-> [code |-> Str(AsStr(rows[i].code)),
                             weight |-> rows[i].weight]]

\* line 82: a required column is missing
MissingColumn(content) == ~content.hasCode \/ ~content.hasWeight

\* lines 64-93: [df, diag, created, removed]
read_one(how, content) ==
    LET rec == _read_xlsx_without_styles(how)
        made == IF how = "direct" THEN 0 ELSE rec.created
        gone == IF how = "direct" THEN 0 ELSE rec.removed
    IN IF how # "direct" /\ rec.raised
       THEN [df |-> None, diag |-> "read_failed", created |-> made, removed |-> gone]
       ELSE IF MissingColumn(content)
       THEN [df |-> None, diag |-> "missing_cols", created |-> made, removed |-> gone]
       ELSE [df |-> Some(CleanSheet(IF how = "direct" THEN content.rows
                                    ELSE CodesAsStr(content.rows))),
             diag |-> "ok", created |-> made, removed |-> gone]

(***************************************************************************)
(* load_all, lines 96-108.  tables is a dict: [keys, val], keys in         *)
(* insertion order.                                                        *)
(***************************************************************************)
EmptyDict == [keys |-> <<>>, val |-> <<>>]

\* line 103: p.stem
FundKey(p) == p.stem

\* line 104: tables[name] = df
Put(d, name, df) ==
    [keys |-> IF name \in Range(d.keys) THEN d.keys ELSE Append(d.keys, name),
     val |-> [k \in Range(d.keys) \cup {name} |-> IF k = name THEN df ELSE d.val[k]]]

\* line 102: df is not None and not df.empty
Usable(df) == ~df.none /\ df.rows # <<>>

\* line 97: sorted() of the paths; file names made of the stems and
\* extensions of the model sort by stem, then by extension
StemOrder == <<"a", "b", "total_weight">>
ExtOrder == <<"csv", "xlsx">>
RankIn(order, x) == CHOOSE i \in 1..Len(order) : order[i] = x
PathLess(f, g) ==
    \/ RankIn(StemOrder, f.stem) < RankIn(StemOrder, g.stem)
    \/ f.stem = g.stem /\ RankIn(ExtOrder, f.ext) < RankIn(ExtOrder, g.ext)

RECURSIVE SortedPaths(_)
SortedPaths(S) ==
    IF S = {} THEN <<>>
    ELSE LET m == CHOOSE x \in S : \A y \in S \ {x} : PathLess(x, y)
         IN <<m>> \o SortedPaths(S \ {m})

(***************************************************************************)
(* combine_weighted, lines 121-156.  A frame is [cols, codes, data]: the   *)
(* column labels in order (the code column first), the code column, and    *)
(* the other columns by label.                                             *)
(***************************************************************************)
PCT_OUTPUT == TRUE

EmptyFrame == [cols |-> <<CODE_COL, TOTAL_COL>>, codes |-> <<>>,
               data |-> (TOTAL_COL :> <<>>)]
NoFrame == [cols |-> <<>>, codes |-> <<>>, data |-> <<>>]

NRows(F) == Len(F.codes)

\* line 135: df.rename(columns={WEIGHT_COL: name})
Renamed(t, name) ==
    [cols |-> <<CODE_COL, name>>,
     codes |-> [i \in 1..Len(t) |-> t[i].code],
     data |-> (name :> [i \in 1..Len(t) |-> t[i].weight])]

RowOf(F, code) == CHOOSE i \in 1..NRows(F) : F.codes[i] = code
ValueAt(F, c, code) ==
    IF code \in Range(F.codes) THEN F.data[c][RowOf(F, code)] ELSE NaN

\* line 136: pd.merge(L, R, how="outer", on=CODE_COL): the keys of both,
\* sorted; a column is NaN where its frame lacks the key
OuterMerge(L, R) ==
    LET keys == SortCodes(Range(L.codes) \cup Range(R.codes))
        labels == DOMAIN L.data \cup DOMAIN R.data
    IN [cols |-> L.cols \o Tail(R.cols),
        codes |-> keys,
        data |-> [c \in labels |->
                    [j \in 1..Len(keys) |->
                       IF c \in DOMAIN L.data THEN ValueAt(L, c, keys[j])
                       ELSE ValueAt(R, c, keys[j])]]]

RECURSIVE MergeAll(_, _, _)
\* lines 133-136: the loop over tables.items(), from the k-th key on
MergeAll(merged, tables, k) ==
    IF k > Len(tables.keys) THEN merged
    ELSE LET name == tables.keys[k]
             tmp == Renamed(tables.val[name], name)
         IN MergeAll(IF k = 1 THEN tmp ELSE OuterMerge(merged, tmp), tables, k + 1)

\* line 137: merged.fillna(0.0)
FillNaFrame(F) ==
    [F EXCEPT !.data = [c \in DOMAIN F.data |->
                          [i \in 1..NRows(F) |-> FillNa(F.data[c][i])]]]

\* merged[label] = column: an existing label is overwritten in place, a new
\* one is appended
SetCol(F, label, col) ==
    [cols |-> IF label \in Range(F.cols) THEN F.cols ELSE Append(F.cols, label),
     codes |-> F.codes,
     data |-> [c \in DOMAIN F.data \cup {label} |->
                 IF c = label THEN col ELSE F.data[c]]]

\* line 139
EtfCols(F) == SelectSeq(F.cols, LAMBDA c : c # CODE_COL)

RECURSIVE AddTotals(_, _, _)
\* lines 143-144: merged["total_weight"] += merged[c] * w.get(c, 0.0)
AddTotals(F, cs, w) ==
    IF cs = <<>> THEN F
    ELSE LET c == Head(cs)
             col == [i \in 1..NRows(F) |->
                       RAdd(F.data[TOTAL_COL][i],
                            RMul(F.data[c][i], Get(w, c, Zero)))]
         IN AddTotals(SetCol(F, TOTAL_COL, col), Tail(cs), w)

\* line 146: (merged[etf_cols] > 0).sum(axis=1)
AppearIn(F, cs) ==
    [i \in 1..NRows(F) |->
       Rat(Cardinality({k \in 1..Len(cs) : RLess(Zero, F.data[cs[k]][i])}), 1)]

\* sort_values with ascending=True
sort_values_ascending(totals) ==
    {p \in Permutations(1..Len(totals)) :
       \A i, j \in 1..Len(totals) : i < j => RLeq(totals[p[i]], totals[p[j]])}

\* line 147: sort_values("total_weight", ascending=False) with the default
\* kind="quicksort", which is not stable: every order of the rows with the
\* totals descending is a possible result
sort_values(totals) ==
    {p \in Permutations(1..Len(totals)) :
       \A i, j \in 1..Len(totals) : i < j => RLeq(totals[p[j]], totals[p[i]])}

\* the rows of F in the order p
Reordered(F, p) ==
    [cols |-> F.cols,
     codes |-> [i \in 1..NRows(F) |-> F.codes[p[i]]],
     data |-> [c \in DOMAIN F.data |-> [i \in 1..NRows(F) |-> F.data[c][p[i]]]]]

\* round(4): to the nearest 1/10000, halves to the even one
Round4(x) ==
    LET n == x[1] * 10000
        q == n \div x[2]
        r == n - q * x[2]
        up == 2 * r > x[2] \/ (2 * r = x[2] /\ q % 2 = 1)
    IN Rat(IF up THEN q + 1 ELSE q, 10000)

\* line 150
PctCol(F) ==
    [i \in 1..NRows(F) |-> Round4(RMul(F.data[TOTAL_COL][i], Rat(100, 1)))]

\* lines 152-156: merged[cols]
Selected(F, cols) ==
    [cols |-> cols, codes |-> F.codes,
     data |-> [c \in Range(cols) \ {CODE_COL} |-> F.data[c]]]

\* lines 132-146: the frame before it is sorted
Unsorted(tables, w) ==
    LET merged == FillNaFrame(MergeAll(NoFrame, tables, 1))
        etf_cols == EtfCols(merged)
        zeroed == SetCol(merged, TOTAL_COL, [i \in 1..NRows(merged) |-> Zero])
        totalled == AddTotals(zeroed, etf_cols, w)
    IN SetCol(totalled, APPEAR_COL, AppearIn(totalled, etf_cols))

\* lines 147-156: the frame returned, its rows in the order p
Finished(F, etf_cols, p) ==
    LET sorted == Reordered(F, p)
        pct == IF PCT_OUTPUT THEN SetCol(sorted, PCT_COL, PctCol(sorted)) ELSE sorted
    IN Selected(pct, <<CODE_COL, TOTAL_COL>>
                     \o (IF PCT_OUTPUT THEN <<PCT_COL>> ELSE <<>>)
                     \o <<APPEAR_COL>> \o etf_cols)

\* lines 121-156: the frames combine_weighted can return, or the ValueError
\* of normalize_weights
combine_weighted(tables, setting) ==
    IF tables.keys = <<>> THEN [raised |-> FALSE, frames |-> {EmptyFrame}]
    ELSE LET r == normalize_weights(tables.keys, setting) IN
         IF r.raised THEN [raised |-> TRUE, frames |-> {}]
         ELSE LET F == Unsorted(tables, r.w)
                  etf_cols == EtfCols(FillNaFrame(MergeAll(NoFrame, tables, 1)))
              IN [raised |-> FALSE,
                  frames |-> {Finished(F, etf_cols, p) :
                                p \in sort_values(F.data[TOTAL_COL])}]

\* main without the test of line 161
NoTablesUnchecked(tables) == FALSE

\* line 161: if not tables
NoTables(tables) == tables.keys = <<>>

(***************************************************************************)
(* State.                                                                  *)
(***************************************************************************)
VARIABLES
    \* the units run on their own: which unit, and how far it has got
    upc,
    \* read_one, lines 86-93: the sheet read, and out's columns as they are set
    sheet, codes, weights, table,
    \* normalize_weights: its arguments and what it returned
    etf_names, setting, resolved,
    \* main: where the run is
    pc,
    \* the data folder's files in the order of line 97, and the module's
    \* ETF_WEIGHTS (line 22)
    files, ETF_WEIGHTS,
    \* load_all: the file the loop is at, the dict being built, and what
    \* read_one did for each file so far (its diagnostic and its result)
    idx, tables, reads,
    \* the temporary files of the recovery read: on disk now, made so far
    tmpfiles, tmpmade,
    \* main: the frame combine_weighted returned, and the output file
    result, output

uvars == <<upc, sheet, codes, weights, table, etf_names, setting, resolved>>
pvars == <<pc, files, ETF_WEIGHTS, idx, tables, reads, tmpfiles, tmpmade, result, output>>
vars == <<uvars, pvars>>

(***************************************************************************)
(* The inputs of the units.                                                *)
(***************************************************************************)
CodeCells == {Str(<<"X">>), Str(<<"X", ".", "0">>), Str(<<" ", "Y", " ">>),
              Str(<<"X", ".", "0", ".", "0">>), Str(<<>>)}
WeightCells == {Str(<<"1", "2", ".", "5", "%">>), Str(<<"4", "5">>),
                Str(<<"0", ".", "0", "2">>), Str(<<" ", "0", ".", "0", "3">>),
                Str(<<"1", "5", "0">>), Str(<<"-", "0", ".", "2">>),
                Str(<<"x">>), Empty}
SheetRows == [code : CodeCells, weight : WeightCells]
SeqsUpTo(S, n) == UNION {[1..k -> S] : k \in 0..n}
Sheets == SeqsUpTo(SheetRows, MaxRows)

FundNames == {"a", "b", "total_weight"}
RawWeights == {-1, 0, 1, 3}
Settings == {Equal} \cup
            {Explicit(m) : m \in UNION {[D -> RawWeights] : D \in SUBSET FundNames}}
\* lists without repetition: the keys of a dict
NameLists == {l \in SeqsUpTo(FundNames, Cardinality(FundNames)) :
                \A i, j \in 1..Len(l) : i # j => l[i] # l[j]}

NoSheet == <<>>
NoResult == [raised |-> FALSE, w |-> <<>>]

UInitReadOne ==
    /\ upc = "sheet"
    /\ sheet \in Sheets
    /\ codes = <<>> /\ weights = <<>> /\ table = <<>>
    /\ etf_names = <<>> /\ setting = Equal /\ resolved = NoResult

UInitResolve ==
    /\ upc = "scheme"
    /\ etf_names \in NameLists
    /\ setting \in Settings
    /\ resolved = NoResult
    /\ sheet = NoSheet /\ codes = <<>> /\ weights = <<>> /\ table = <<>>

\* the driver does not run while a unit is run on its own
PIdle ==
    /\ pc = "idle"
    /\ files = <<>> /\ ETF_WEIGHTS = Equal
    /\ idx = 1 /\ tables = EmptyDict /\ reads = <<>>
    /\ tmpfiles = 0 /\ tmpmade = 0
    /\ result = NoFrame /\ output = [written |-> FALSE, frame |-> NoFrame]

UInit == (UInitReadOne \/ UInitResolve) /\ PIdle

\* line 87
NormalizeCodes ==
    /\ upc = "sheet"
    /\ codes' = _normalize_code(CodeColumn(sheet))
    /\ upc' = "codes"
    /\ UNCHANGED <<sheet, weights, table, etf_names, setting, resolved, pvars>>

\* line 88
ToFraction ==
    /\ upc = "codes"
    /\ weights' = _to_fraction(WeightColumn(sheet))
    /\ upc' = "weights"
    /\ UNCHANGED <<sheet, codes, table, etf_names, setting, resolved, pvars>>

\* lines 91-93
FilterAndGroup ==
    /\ upc = "weights"
    /\ table' = GroupSum(codes, weights,
                         {i \in 1..Len(sheet) : KeepRow(codes[i], weights[i])})
    /\ upc' = "table"
    /\ UNCHANGED <<sheet, codes, weights, etf_names, setting, resolved, pvars>>

\* lines 111-119
Resolve ==
    /\ upc = "scheme"
    /\ resolved' = normalize_weights(etf_names, setting)
    /\ upc' = "resolved"
    /\ UNCHANGED <<sheet, codes, weights, table, etf_names, setting, pvars>>

UNext == NormalizeCodes \/ ToFraction \/ FilterAndGroup \/ Resolve

SpecUnit == UInit /\ [][UNext]_vars

(***************************************************************************)
(* The run of main, lines 159-172.                                         *)
(***************************************************************************)
\* the files the folder can hold: two that differ only in extension, and one
\* whose stem is the label of an output column; no stem is CODE_COL
FolderFiles == {[stem |-> "a", ext |-> "csv"], [stem |-> "a", ext |-> "xlsx"],
                [stem |-> "b", ext |-> "csv"],
                [stem |-> "total_weight", ext |-> "csv"]}

Row(c, x) == [code |-> Str(c), weight |-> Str(x)]
\* the sheets a file can hold
BookSheets ==
    {<<Row(<<"X">>, <<"0", ".", "6">>), Row(<<"Y">>, <<"0", ".", "4">>)>>,
     <<Row(<<"X">>, <<"3", "0">>), Row(<<"Y">>, <<"7", "0">>)>>,
     <<Row(<<"X">>, <<"0", ".", "5">>)>>,
     <<Row(<<"Y">>, <<"5", "0", "%">>)>>,
     <<Row(<<"X">>, <<"0", ".", "0", "2">>),
       Row(<<"X", ".", "0">>, <<"0", ".", "0", "3">>)>>,
     <<Row(<<"X">>, <<"0">>)>>}
FileContents ==
    {[hasCode |-> TRUE, hasWeight |-> TRUE, rows |-> r] : r \in BookSheets}
    \cup {[hasCode |-> FALSE, hasWeight |-> TRUE, rows |-> <<>>],
          [hasCode |-> TRUE, hasWeight |-> FALSE, rows |-> <<>>]}
\* the values of ETF_WEIGHTS
Schemes == {Equal,
            Explicit("a" :> 2 @@ "b" :> 0),
            Explicit("a" :> 0 @@ "b" :> 0),
            Explicit("a" :> 1 @@ "total_weight" :> 3)}

UIdle ==
    /\ upc = "idle"
    /\ sheet = NoSheet /\ codes = <<>> /\ weights = <<>> /\ table = <<>>
    /\ etf_names = <<>> /\ setting = Equal /\ resolved = NoResult

Init ==
    /\ UIdle
    /\ pc = "load_all"
    /\ \E S \in SUBSET FolderFiles :
         /\ Cardinality(S) <= MaxFiles
         /\ files = SortedPaths(S)
    /\ ETF_WEIGHTS \in Schemes
    /\ idx = 1 /\ tables = EmptyDict /\ reads = <<>>
    /\ tmpfiles = 0 /\ tmpmade = 0
    /\ result = NoFrame /\ output = [written |-> FALSE, frame |-> NoFrame]

\* lines 100-107: one turn of load_all's loop, on files[idx]
ReadFile ==
    /\ pc = "load_all"
    /\ idx <= Len(files)
    /\ \E how \in ReadOutcomes, content \in FileContents :
         LET p == files[idx]
             r == read_one(how, content)
         IN /\ tables' = IF Usable(r.df) THEN Put(tables, FundKey(p), r.df.rows)
                         ELSE tables
            /\ reads' = Append(reads, [diag |-> r.diag, df |-> r.df])
            /\ tmpfiles' = tmpfiles + r.created - r.removed
            /\ tmpmade' = tmpmade + r.created
    /\ idx' = idx + 1
    /\ UNCHANGED <<pc, files, ETF_WEIGHTS, result, output, uvars>>

\* lines 160-163: load_all has returned no table
NoValidTables ==
    /\ pc = "load_all"
    /\ idx > Len(files)
    /\ NoTables(tables)
    /\ pc' = "done"
    /\ UNCHANGED <<files, ETF_WEIGHTS, idx, tables, reads, tmpfiles, tmpmade,
                   result, output, uvars>>

\* line 164
Combine ==
    /\ pc = "load_all"
    /\ idx > Len(files)
    /\ ~NoTables(tables)
    /\ LET r == combine_weighted(tables, ETF_WEIGHTS) IN
         IF r.raised
         THEN pc' = "raised" /\ result' = result
         ELSE pc' = "to_csv" /\ result' \in r.frames
    /\ UNCHANGED <<files, ETF_WEIGHTS, idx, tables, reads, tmpfiles, tmpmade,
                   output, uvars>>

\* lines 165-172
ToCsv ==
    /\ pc = "to_csv"
    /\ output' = [written |-> TRUE, frame |-> result]
    /\ pc' = "done"
    /\ UNCHANGED <<files, ETF_WEIGHTS, idx, tables, reads, tmpfiles, tmpmade,
                   result, uvars>>

Next == ReadFile \/ NoValidTables \/ Combine \/ ToCsv

Spec == Init /\ [][Next]_vars

(***************************************************************************)
(* What the claims speak of.                                               *)
(***************************************************************************)
\* the weight of a code in a fund's table, 0 if the fund lacks it
WeightIn(t, code) ==
    IF \E i \in 1..Len(t) : t[i].code = code
    THEN t[CHOOSE i \in 1..Len(t) : t[i].code = code].weight
    ELSE Zero
\* the codes of all loaded funds
UnionCodes == UNION {{tables.val[k][i].code : i \in 1..Len(tables.val[k])} :
                       k \in Range(tables.keys)}
\* the scheme weights of the loaded funds
SchemeWeights == normalize_weights(tables.keys, ETF_WEIGHTS).w
\* the dot product of a code's per-fund weights and the scheme weights
Blend(code) ==
    LET part == [k \in Range(tables.keys) |->
                   RMul(WeightIn(tables.val[k], code), SchemeWeights[k])]
    IN SumOver(part, DOMAIN part)
Total(i) == result.data[TOTAL_COL][i]
LoadAllReturned == pc # "idle" /\ idx > Len(files)

RECURSIVE SumIdx(_, _)
\* the sum of col over the rows in I
SumIdx(col, I) ==
    IF I = {} THEN Zero
    ELSE LET i == CHOOSE x \in I : TRUE IN RAdd(col[i], SumIdx(col, I \ {i}))

\* C1: combine_weighted returns one row per code of the union of all funds'
\* codes, and each row's total_weight is the sum over the loaded funds of the
\* code's weight in the fund (0 if absent) times the fund's normalized scheme
\* weight, whatever the funds are called.
C1_TotalIsBlend ==
    pc = "to_csv" =>
        /\ Range(result.codes) = UnionCodes
        /\ Len(result.codes) = Cardinality(UnionCodes)
        /\ \A i \in 1..Len(result.codes) : Total(i) = Blend(result.codes[i])

\* C2: normalize_weights raises or returns one entry per loaded fund: 1/N each
\* under the equal scheme (the empty mapping for N = 0); under an explicit
\* scheme the configured weight (0 if unconfigured) over the sum of the
\* configured weights of the loaded funds only, raising exactly when that sum
\* is <= 0; the entries of a non-empty mapping sum to 1.
C2_Resolved ==
    upc = "resolved" =>
        LET names == Range(etf_names)
            raw(n) == IF n \in DOMAIN setting.map THEN setting.map[n] ELSE 0
            total == SumIdx([i \in 1..Len(etf_names) |-> Rat(raw(etf_names[i]), 1)],
                            1..Len(etf_names))[1]
        IN IF setting.equal
           THEN /\ ~resolved.raised
                /\ DOMAIN resolved.w = names
                /\ \A n \in names : resolved.w[n] = Rat(1, Cardinality(names))
                /\ names # {} => SumOver(resolved.w, names) = One
           ELSE /\ resolved.raised <=> total <= 0
                /\ ~resolved.raised =>
                     /\ DOMAIN resolved.w = names
                     /\ \A n \in names : resolved.w[n] = Rat(raw(n), total)
                     /\ SumOver(resolved.w, names) = One

\* C2 witness: an explicit scheme resolved over two loaded funds while a
\* configured fund with a positive weight did not load.
C2_Witness ==
    /\ upc = "resolved"
    /\ ~setting.equal /\ ~resolved.raised
    /\ Len(etf_names) = 2
    /\ \E n \in DOMAIN setting.map : n \notin Range(etf_names) /\ setting.map[n] > 0

\* C3: the output file is written only after at least one fund table has
\* loaded and the scheme has resolved; a run that ends with no table or with
\* the scheme rejected has written nothing.
C3_WriteOnlyAfterResolve ==
    /\ output.written =>
         /\ idx > Len(files)
         /\ tables.keys # <<>>
         /\ ~normalize_weights(tables.keys, ETF_WEIGHTS).raised
    /\ pc = "raised" => ~output.written
    /\ (pc = "done" /\ tables.keys = <<>>) => ~output.written

\* C3 witness: a run aborted by the rejected scheme, with tables loaded and
\* no output.
C3_Witness ==
    pc = "raised" /\ tables.keys # <<>> /\ ~output.written

\* C4: a file that is unreadable or lacks a required column is skipped: every
\* file is still processed, the tables of the loaded funds are those their
\* own files gave, and the failed file's fund identifier is not in the
\* mapping load_all returns.
C4_FailedFileAbsent ==
    LoadAllReturned =>
        /\ Len(reads) = Len(files)
        /\ \A k \in Range(tables.keys) :
             \E i \in 1..Len(reads) :
                /\ FundKey(files[i]) = k /\ Usable(reads[i].df)
                /\ tables.val[k] = reads[i].df.rows
        /\ \A i \in 1..Len(reads) :
             reads[i].diag # "ok" => FundKey(files[i]) \notin Range(tables.keys)

\* C5: every temporary file the recovery read has created is deleted by the
\* time the read returns or raises.
C5_NoTempFileLeft ==
    tmpmade > 0 => tmpfiles = 0

\* C6: after _to_fraction every value of the column lies in [0, 1]; the
\* column is divided by 100 as a whole exactly when its maximum parsed value
\* exceeds 1, and unparseable cells become 0.
C6_FractionInUnitInterval ==
    upc \in {"weights", "table"} =>
        LET parsed == [i \in 1..Len(sheet) |-> ParseWeightCell(sheet[i].weight)]
            big == \E i \in 1..Len(sheet) :
                     ~IsNaN(parsed[i]) /\ RLess(One, parsed[i])
        IN \A i \in 1..Len(sheet) :
             /\ RLeq(Zero, weights[i]) /\ RLeq(weights[i], One)
             /\ weights[i] = IF IsNaN(parsed[i]) THEN Zero
                             ELSE IF big THEN RDiv(parsed[i], Rat(100, 1))
                             ELSE parsed[i]

\* C7: _normalize_code is idempotent: normalizing the normalized codes again
\* returns them unchanged.
C7_NormalizeCodeIdempotent ==
    upc \in {"codes", "weights", "table"} =>
        _normalize_code([i \in 1..Len(codes) |-> Str(codes[i])]) = codes

\* C8: read_one merges the rows of a code by summing the normalized weights
\* of all of them, the filter being settled after the sums: the table has
\* unique codes and holds each non-empty code whose rows' weights sum to
\* more than 0, with that sum.
C8_SumOfAllRows ==
    upc = "table" =>
        LET rowsOf(k) == {i \in 1..Len(codes) : codes[i] = k}
            sum(k) == SumIdx(weights, rowsOf(k))
        IN /\ \A i, j \in 1..Len(table) : i # j => table[i].code # table[j].code
           /\ Range(table) = {[code |-> k, weight |-> sum(k)] :
                                k \in {c \in Range(codes) :
                                         c # <<>> /\ RLess(Zero, sum(c))}}

\* C9: load_all returns, for every file that is readable, has both columns
\* and yields a holding, that file's own table under the file's base name.
C9_EveryEligibleFileKept ==
    LoadAllReturned =>
        \A i \in 1..Len(reads) :
            Usable(reads[i].df) =>
                /\ FundKey(files[i]) \in Range(tables.keys)
                /\ tables.val[FundKey(files[i])] = reads[i].df.rows

\* the place of a code in the outer join's result
JoinPlace(code) ==
    LET joined == FillNaFrame(MergeAll(NoFrame, tables, 1))
    IN CHOOSE i \in 1..NRows(joined) : joined.codes[i] = code

\* C10 as stated: the rows are in descending order of total_weight and rows
\* of equal total_weight keep the order of the outer join (stated for the
\* runs in which no fund is called like the total_weight column).
C10_StableDescending ==
    (pc = "to_csv" /\ TOTAL_COL \notin Range(tables.keys)) =>
        \A i, j \in 1..Len(result.codes) :
            i < j =>
                /\ RLeq(Total(j), Total(i))
                /\ Total(i) = Total(j) =>
                     JoinPlace(result.codes[i]) < JoinPlace(result.codes[j])

\* C10 amended: the rows are in descending order of total_weight, the order
\* of rows of equal total_weight being unspecified; every code of the join
\* has its row, once, those of total_weight 0 too, and these come after
\* every row of positive total_weight.
C10_DescendingAllRows ==
    pc = "to_csv" =>
        /\ \A i, j \in 1..Len(result.codes) : i < j => RLeq(Total(j), Total(i))
        /\ Range(result.codes) = UnionCodes
        /\ Len(result.codes) = Cardinality(UnionCodes)
        /\ \A i, j \in 1..Len(result.codes) :
             (Total(i) = Zero /\ RLess(Zero, Total(j))) => j < i

\* C10 witness: a result with a row of positive total_weight and a row whose
\* total_weight is 0 because its only fund has scheme weight 0.
C10_Witness ==
    /\ pc = "to_csv"
    /\ \E i, j \in 1..Len(result.codes) :
         /\ RLess(Zero, Total(j)) /\ Total(i) = Zero
         /\ \A k \in Range(tables.keys) :
              RLess(Zero, WeightIn(tables.val[k], result.codes[i]))
                => SchemeWeights[k] = Zero

====
